---- MODULE Spec2Model ----
(***************************************************************************)
(* Model of the "Sheet Generator" pushbutton                               *)
(* (Beck&vd_kroef_bv_01.pushbutton/script.py): the boundary resolver, the  *)
(* initial scan that builds the grid rows, the tag add/remove handlers of  *)
(* ElementEditorForm and the final commit of the main workflow.            *)
(*                                                                         *)
(* Modelling conventions                                                   *)
(*  - Elements are opaque integer ids.  Pipes are 1..NPipes, the fitting   *)
(*    is FitBase+1, markers that exist when the workflow starts are        *)
(*    MarkerBase+k, markers created by IndependentTag.Create get the       *)
(*    fresh ids NewBase+1, NewBase+2, ... (ids are never reused).          *)
(*  - A marker records one host id (GetTaggedElementIds()[0] or            *)
(*    TaggedElementId); Outside stands for a host that is not a pipe of    *)
(*    the region.                                                          *)
(*  - FilteredElementCollector enumerates elements in ascending id order.  *)
(*  - Strings are sequences of one-character strings.                      *)
(*  - Boundary points are XYZ records on an integer grid whose unit is    *)
(*    the tolerance of points_are_close; detail lines of a plan view lie   *)
(*    in one plane, Z = 0.                                                 *)
(*  - An unhandled Python exception ends the running handler; txOpen       *)
(*    records a Transaction that was started and never committed or        *)
(*    rolled back.                                                         *)
(***************************************************************************)
EXTENDS Integers, Sequences, FiniteSets, TLC

\* ------------------------------------------------------------------ bounds
NPipes == 3
MaxInitMarkers == 1
MaxNew == 2
MaxSel == 2
MaxDefects == 1
MaxLabels == 2
NPoints == 4
MaxSegs == 3
NCenters == 4
MaxEdits == 1
RegionSide == 2
MaxElems == 2
MaxSheets == 2
NFittings == 1

\* ------------------------------------------------------- element id ranges
FitBase == 100
MarkerBase == 200
NewBase == 300
LineBase == 400
NoteBase == 500
Outside == 0

Pipes == 1..NPipes
Fittings == {FitBase + 1}
InitMarkerIds == (MarkerBase + 1)..(MarkerBase + MaxInitMarkers)
\* a detail line of the boundary: an element of a category the editor does not list
DetailLines == {LineBase + 1}
\* a text note that is in the view when the workflow starts
TextNotes == {NoteBase + 1}

\* --------------------------------------------------------- generic helpers
RECURSIVE SetToSeq(_)
SetToSeq(S) ==
    IF S = {} THEN <<>>
    ELSE LET m == CHOOSE x \in S : \A y \in S : x <= y
         IN <<m>> \o SetToSeq(S \ {m})

SeqRange(s) == {s[i] : i \in 1..Len(s)}

Perms(S) == {f \in [1..Cardinality(S) -> S] : \A i, j \in 1..Cardinality(S) : i # j => f[i] # f[j]}

RemoveAt(s, i) == [j \in 1..(Len(s) - 1) |-> IF j < i THEN s[j] ELSE s[j + 1]]

\* ------------------------------------------------------------------ strings
Digits == {"0", "1", "2", "3", "4", "5", "6", "7", "8", "9"}
DigitChar(n) == <<"0", "1", "2", "3", "4", "5", "6", "7", "8", "9">>[n + 1]

\* str(n) for the small naturals the numbering produces
IntToStr(n) == IF n < 10 THEN <<DigitChar(n)>> ELSE <<DigitChar(n \div 10), DigitChar(n % 10)>>

\* re.search(r"([\d\.]+)", raw): the first maximal run of digits and dots;
\* the empty sequence stands for "no match" (a run is never empty).
IsCodeChar(c) == c \in Digits \cup {"."}
RECURSIVE RunFrom(_, _)
RunFrom(raw, i) ==
    IF i > Len(raw) \/ ~IsCodeChar(raw[i]) THEN <<>>
    ELSE <<raw[i]>> \o RunFrom(raw, i + 1)
ParseBase(raw) ==
    IF \E i \in 1..Len(raw) : IsCodeChar(raw[i])
    THEN RunFrom(raw, CHOOSE i \in 1..Len(raw) :
                        /\ IsCodeChar(raw[i])
                        /\ \A j \in 1..(i - 1) : ~IsCodeChar(raw[j]))
    ELSE <<>>

Placeholder == <<"p", "r", "e", "f", "a", "b", " ", "5", ".", "5", ".", "5">>
Texts == { Placeholder,
           <<"5", ".", "1", ".", "1">>,
           <<"n", "o", "n", "e">> }

\* ---------------------------------------------------------------- variables
VARIABLES
    phase,          \* position of the main workflow
    pipeCond,       \* per pipe: what doc.GetElement / get_BoundingBox / LookupParameter("Comments") give
    markers,        \* Pipe Tag elements of the document: {[id, host]}
    rows,           \* dataGrid.Rows, later result["Elements"]
    nextId,         \* next fresh element id
    txOpen,         \* a Transaction was started and neither committed nor rolled back
    fit,            \* integer yes/no parameters of the fitting
    labels,         \* number of TextNote elements created by the workflow
    textNotePlaced, \* ElementEditorForm.textNotePlaced
    text,           \* txtTextNoteCode.Text
    comments,       \* "Comments" parameter value per element id
    views,          \* view names and sheet numbers of the document
    start,          \* the document as it was when the workflow started
    centers,        \* per pipe: (X, Y) of its bounding-box centre in the active view
    bSegs,          \* boundary resolver: the picked segments
    bPoly,          \* boundary resolver: result of order_segments_to_polygon
    collector,      \* the elements of the active view, in collector order: [id, bbox]
    elements_inside, \* ids returned by select_boundary_and_gather, in order
    transfer,       \* sheet transfer script: position and locals of copy_sheets
    autofix         \* AutoFix Reducers script: position of auto_fix and the fittings

wfVars == <<phase, pipeCond, markers, rows, nextId, txOpen, fit, labels,
            textNotePlaced, text, comments, views, start, centers>>
bVars == <<bSegs, bPoly, collector, elements_inside>>
vars == <<phase, pipeCond, markers, rows, nextId, txOpen, fit, labels,
          textNotePlaced, text, comments, views, start, centers, bSegs, bPoly,
          collector, elements_inside, transfer, autofix>>

\* ------------------------------------------------------------ the document
NewIds == (NewBase + 1)..(NewBase + MaxNew)
AllIds == Pipes \cup Fittings \cup InitMarkerIds \cup NewIds \cup DetailLines \cup TextNotes

PipeConds == {"ok", "nobbox", "nocomments", "deleted"}

\* "Comments" of every element when the workflow starts
InitComments == [e \in AllIds |-> IF e \in Pipes THEN <<"9", ".", DigitChar(e)>> ELSE <<>>]

\* bounding-box centre (X, Y) of a pipe in the active view
PipeCenter(p) == centers[p]
\* the pipes of the region lie on one line, none at the same place as its neighbour
PipesInARow == [p \in Pipes |-> <<(2 * p) % NPipes, 0>>]

\* doc.GetElement(ElementId(id)) is not None, for a pipe id
PipeExists(cond, p) == cond[p] # "deleted"
\* host.get_BoundingBox(view) is not None
PipeHasBBox(cond, p) == cond[p] \notin {"deleted", "nobbox"}
\* host.LookupParameter("Comments") is not None
PipeHasComments(cond, p) == cond[p] \notin {"deleted", "nocomments"}

MarkerIdsOf(ms) == {m.id : m \in ms}
MarkersOfHost(ms, h) == {m \in ms : m.host = h}

Row(id, cat, status, code) == [id |-> id, cat |-> cat, status |-> status, code |-> code]

\* ---------------------------------------------------------- initial scan
\* ElementEditorForm.__init__, "7. Populate Rows": the button text of a row
PopulateStatus(cat, tagStatus) ==
    CASE cat = "Pipes" -> IF tagStatus = "Yes" THEN "Remove Tag" ELSE "Add/Place Tag"
      [] cat = "Pipe Tags" -> "Remove Tag"
      [] cat = "Pipe Fittings" -> "Flip T-stuk"
      [] OTHER -> ""

\* What GetTaggedElementIds / TaggedElementId hand out depends on the Revit
\* build: an ElementId, which has IntegerValue and which doc.GetElement
\* accepts, or a LinkElementId, which has HostElementId instead.
TaggedIdKinds == {"ElementId", "LinkElementId"}

\* Category.Name of a gathered element, "" for a category the editor does not list
CategoryOf(e, ms) ==
    IF e \in Pipes THEN "Pipes"
    ELSE IF e \in Fittings THEN "Pipe Fittings"
    ELSE IF e \in MarkerIdsOf(ms) THEN "Pipe Tags"
    ELSE IF e \in TextNotes THEN "Text Notes"
    ELSE ""

\* first loop of filter_relevant_elements: tags pulled in through their host,
\* a pipe among the gathered elements.  An exception in the body (GetElement
\* on a LinkElementId, LookupParameter("Comments") giving None) skips the tag.
RECURSIVE PulledTagRows(_, _, _, _, _, _)
PulledTagRows(tagSeq, ms, cond, cm, pipe_ids, kind) ==
    IF tagSeq = <<>> THEN <<>>
    ELSE LET t == CHOOSE m \in ms : m.id = Head(tagSeq)
             rest == PulledTagRows(Tail(tagSeq), ms, cond, cm, pipe_ids, kind)
         IN IF /\ kind = "ElementId"
               /\ t.host \in pipe_ids
               /\ PipeExists(cond, t.host)
               /\ PipeHasComments(cond, t.host)
            THEN <<Row(t.id, "Pipe Tags", PopulateStatus("Pipe Tags", "Yes"), cm[t.host])>> \o rest
            ELSE rest

\* "detect existing tags": tid.IntegerValue == e.Id.IntegerValue for some tag;
\* on a LinkElementId the comparison raises and the tag is passed over
DetectedTag(e, ms, kind) ==
    IF kind = "ElementId" /\ \E m \in ms : m.host = e THEN "Yes" ELSE "No"

\* second loop of filter_relevant_elements: the row of one gathered element
\* of a listed category; DefaultCode is "" without a Comments parameter
GatheredRow(e, ms, cond, cm, kind) ==
    LET cat == CategoryOf(e, ms)
    IN IF cat = "Pipes"
       THEN Row(e, cat, PopulateStatus(cat, DetectedTag(e, ms, kind)),
                IF PipeHasComments(cond, e) THEN cm[e] ELSE <<>>)
       ELSE IF cat = "Pipe Fittings"
       THEN Row(e, cat, PopulateStatus(cat, "No"), cm[e])
       ELSE IF cat = "Pipe Tags"
       THEN Row(e, cat, PopulateStatus(cat, "Yes"), cm[e])
       ELSE Row(e, cat, PopulateStatus(cat, ""), cm[e])

\* the gathered elements of a listed category, in gathered order
RECURSIVE Listed(_, _)
Listed(gathered, ms) ==
    IF gathered = <<>> THEN <<>>
    ELSE (IF CategoryOf(Head(gathered), ms) = "" THEN <<>> ELSE <<Head(gathered)>>)
         \o Listed(Tail(gathered), ms)

\* filter_relevant_elements without its test of the category
filter_relevant_elements_AnyCategory(gathered, ms, cond, cm, kind) ==
    PulledTagRows(SetToSeq(MarkerIdsOf(ms)), ms, cond, cm, SeqRange(gathered) \cap Pipes, kind)
      \o [i \in 1..Len(gathered) |-> GatheredRow(gathered[i], ms, cond, cm, kind)]

filter_relevant_elements(gathered, ms, cond, cm, kind) ==
    LET listed == Listed(gathered, ms)
    IN PulledTagRows(SetToSeq(MarkerIdsOf(ms)), ms, cond, cm, SeqRange(gathered) \cap Pipes, kind)
         \o [i \in 1..Len(listed) |-> GatheredRow(listed[i], ms, cond, cm, kind)]

\* the documents the workflow can start on: up to MaxInitMarkers markers
\* MarkerBase+1.. exist; pipes being interchangeable, the k-th one is hosted
\* by one of the first k pipes or by an element outside the region
InitMarkerSets ==
    {ms \in SUBSET [id : InitMarkerIds, host : Pipes \cup {Outside}] :
        /\ \A a, b \in ms : a.id = b.id => a = b
        /\ \A a \in ms : a.host <= a.id - MarkerBase
        /\ \E k \in 0..MaxInitMarkers : MarkerIdsOf(ms) = (MarkerBase + 1)..(MarkerBase + k)}

\* ------------------------------------------------------ boundary resolver
\* tol of points_are_close (1e-6), in grid units
Tol == 1

\* end points of detail lines: the grid points (0,0) (1,0) (0,1) (1,1) (0,2) ...
Points == {[X |-> k % 2, Y |-> k \div 2, Z |-> 0] : k \in 0..(NPoints - 1)}
\* (start, end) of a picked detail line
Segments == Points \X Points

Abs(n) == IF n < 0 THEN -n ELSE n

points_are_close(pt1, pt2) ==
    /\ Abs(pt1.X - pt2.X) < Tol
    /\ Abs(pt1.Y - pt2.Y) < Tol
    /\ Abs(pt1.Z - pt2.Z) < Tol

\* return values of order_segments_to_polygon
None == [kind |-> "None", pts |-> <<>>]
Polygon(pts) == [kind |-> "Polygon", pts |-> pts]
NotResolved == [kind |-> "not resolved", pts |-> <<>>]

\* the  while segments and changed  loop: attach the first segment of the
\* pool that touches the last point, until none does
RECURSIVE Chain(_, _)
Chain(polygon, segments) ==
    LET last_pt == polygon[Len(polygon)]
        touching == {idx \in 1..Len(segments) :
                        \/ points_are_close(last_pt, segments[idx][1])
                        \/ points_are_close(last_pt, segments[idx][2])}
    IN IF touching = {} THEN [polygon |-> polygon, segments |-> segments]
       ELSE LET idx == CHOOSE i \in touching : \A j \in touching : i <= j
                ptA == segments[idx][1]
                ptB == segments[idx][2]
            IN Chain(Append(polygon, IF points_are_close(last_pt, ptA) THEN ptB ELSE ptA),
                     RemoveAt(segments, idx))

\* polygon and remaining pool when the loop of order_segments_to_polygon ends
Chained(segments) == Chain(<<segments[1][1], segments[1][2]>>, Tail(segments))

\* the resolver returning the chain with its closing point still on it
order_segments_to_polygon_NoPop(segments) ==
    IF segments = <<>> THEN None
    ELSE LET polygon == Chained(segments).polygon
         IN IF points_are_close(polygon[1], polygon[Len(polygon)])
            THEN Polygon(polygon)
            ELSE None

\* the resolver without its test that the chain ends where it began
order_segments_to_polygon_NoClosureCheck(segments) ==
    IF segments = <<>> THEN None
    ELSE LET polygon == Chained(segments).polygon
         IN Polygon(SubSeq(polygon, 1, Len(polygon) - 1))

order_segments_to_polygon(segments) ==
    IF segments = <<>> THEN None
    ELSE LET polygon == Chained(segments).polygon
         IN IF points_are_close(polygon[1], polygon[Len(polygon)])
            THEN Polygon(SubSeq(polygon, 1, Len(polygon) - 1))
            ELSE None

\* ------------------------------------------------------ region membership
\* elem.get_BoundingBox(view): a box, or None for an element without extent
BoundingBox(min, max) == [has |-> TRUE, Min |-> min, Max |-> max]
NoBoundingBox == [has |-> FALSE,
                  Min |-> [X |-> 0, Y |-> 0, Z |-> 0],
                  Max |-> [X |-> 0, Y |-> 0, Z |-> 0]]

\* The centre of a box is the mean of Min and Max per axis, which lies
\* between grid points: the membership test runs in half grid units, the
\* centre as Min + Max and every polygon point doubled.
Center(bbox) == [X |-> bbox.Min.X + bbox.Max.X,
                 Y |-> bbox.Min.Y + bbox.Max.Y,
                 Z |-> bbox.Min.Z + bbox.Max.Z]
HalfUnits(polygon) ==
    [i \in 1..Len(polygon) |->
        [X |-> 2 * polygon[i].X, Y |-> 2 * polygon[i].Y, Z |-> 2 * polygon[i].Z]]

\* the condition of is_point_inside_polygon on the edge polygon[j] -> polygon[i]:
\*   ((yi > y) != (yj > y)) and (x < (xj - xi) * (y - yi) / (yj - yi) + xi)
\* with the division multiplied out; yj = yi never reaches the second conjunct
Toggles(point, pi, pj) ==
    /\ (pi.Y > point.Y) # (pj.Y > point.Y)
    /\ IF pj.Y - pi.Y > 0
       THEN (point.X - pi.X) * (pj.Y - pi.Y) < (pj.X - pi.X) * (point.Y - pi.Y)
       ELSE (point.X - pi.X) * (pj.Y - pi.Y) > (pj.X - pi.X) * (point.Y - pi.Y)

\* the same loop with "inside = True" in place of "inside = not inside"
RECURSIVE InsideFrom_NoToggle(_, _, _, _, _)
InsideFrom_NoToggle(point, polygon, i, j, inside) ==
    IF i > Len(polygon)
    THEN inside
    ELSE InsideFrom_NoToggle(point, polygon, i + 1, i,
                             IF Toggles(point, polygon[i], polygon[j]) THEN TRUE ELSE inside)

\* the loop of is_point_inside_polygon from index i on, j the previous index
RECURSIVE InsideFrom(_, _, _, _, _)
InsideFrom(point, polygon, i, j, inside) ==
    IF i > Len(polygon)
    THEN inside
    ELSE InsideFrom(point, polygon, i + 1, i,
                    IF Toggles(point, polygon[i], polygon[j]) THEN ~inside ELSE inside)

\* the same loop started with j = 0 instead of j = n - 1: the closing edge is not tested
is_point_inside_polygon_OpenChain(point, polygon) ==
    InsideFrom(point, polygon, 1, 1, FALSE)

is_point_inside_polygon(point, polygon) ==
    InsideFrom(point, polygon, 1, Len(polygon), FALSE)

\* the loop over the collector in select_boundary_and_gather, from element k on
RECURSIVE GatherFrom(_, _, _, _)
GatherFrom(elems, polygon, k, inside) ==
    IF k > Len(elems)
    THEN inside
    ELSE LET elem == elems[k]
             bbox == elem.bbox
         IN GatherFrom(elems, polygon, k + 1,
                IF bbox.has /\ is_point_inside_polygon(Center(bbox), HalfUnits(polygon))
                THEN Append(inside, elem.id)
                ELSE inside)

\* ===================================================== Sheet transfer script
\* OVT_Sheet_Transfer_03: copy_sheets.  A sheet number is a string.
CopySuffix == <<"_", "c", "o", "p", "y">>
SheetA == <<"A">>
SheetB == <<"B">>
\* sheet numbers of the source document
SourceNumbers == {SheetA, SheetB, SheetA \o CopySuffix}
\* sheet numbers the target document can hold before the run
TargetNumbers == {SheetA, SheetB, SheetA \o CopySuffix, SheetA \o CopySuffix \o <<"2">>,
                  SheetA \o CopySuffix \o CopySuffix}

\* "{}_copy{}".format(orig_sheet_number, count if count > 1 else "")
new_sheet_number(orig_sheet_number, count) ==
    orig_sheet_number \o CopySuffix \o (IF count > 1 THEN IntToStr(count) ELSE <<>>)

\* a copy that is not entered into the set of numbers in use
existing_sheet_numbers_add_Forgotten(existing, number) == existing

\* existing_sheet_numbers.add(new_sheet_number)
existing_sheet_numbers_add(existing, number) == existing \cup {number}

\* the script has not been started
TransferIdle ==
    [stage |-> "idle", sheets |-> <<>>, k |-> 0, new |-> <<>>, count |-> 0,
     existing |-> {}, pre |-> {}, created |-> <<>>]

\* copy_sheets entered: existing_sheet_numbers collected from the target
TransferStart(sheets, existing) ==
    [stage |-> "for", sheets |-> sheets, k |-> 1, new |-> <<>>, count |-> 0,
     existing |-> existing, pre |-> existing, created |-> <<>>]

\* ==================================================== AutoFix Reducers script
\* Beck&vd_kroef_bv_02: auto_fix.  Yes/no parameters of a fitting; "2x45"
\* stands for the parameter named 2x45 with a degree sign.
ParamNames == {"kort_verloop (kleinste)", "kort_verloop (grootste)", "reducer_eccentric",
               "switch_excentriciteit", "2x45", "buis_invogen"}
\* value of a parameter the family does not have, or that is not an integer
NoParam == 2

\* the parameter maps of auto_fix, as sequences of <<name, on>>
TstukMap(dir_label) ==
    << <<"kort_verloop (kleinste)", TRUE>>, <<"kort_verloop (grootste)", TRUE>>,
       <<"reducer_eccentric", TRUE>>,
       <<"switch_excentriciteit", dir_label \in {"Right", "Down"}>> >>
BochtMap == << <<"2x45", FALSE>>, <<"buis_invogen", FALSE>> >>
ReducerMap ==
    << <<"kort_verloop (kleinste)", FALSE>>, <<"kort_verloop (grootste)", FALSE>>,
       <<"switch_excentriciteit", FALSE>>, <<"reducer_eccentric", FALSE>> >>

\* set_yesno_param without its first two lines
set_yesno_param_Unguarded(params, param_name, on, readOnly) ==
    IF params[param_name] # NoParam /\ param_name \notin readOnly
    THEN [params EXCEPT ![param_name] = IF on THEN 1 ELSE 0]
    ELSE params

\* set_yesno_param; p.Set raises on a parameter of readOnly and the
\* exception is swallowed
set_yesno_param(params, param_name, on, readOnly) ==
    IF param_name = "reducer_eccentric" /\ ~on THEN params
    ELSE IF params[param_name] # NoParam /\ param_name \notin readOnly
    THEN [params EXCEPT ![param_name] = IF on THEN 1 ELSE 0]
    ELSE params

\* for name in param_map: set_yesno_param(fitting, name, param_map[name])
RECURSIVE SetAll(_, _, _, _)
SetAll(params, param_map, i, readOnly) ==
    IF i > Len(param_map) THEN params
    ELSE SetAll(set_yesno_param(params, param_map[i][1], param_map[i][2], readOnly),
                param_map, i + 1, readOnly)

\* try_update_fitting: the parameters after t.Commit(), or after t.RollBack()
\* when the commit raises
try_update_fitting(params, param_map, committed, readOnly) ==
    IF committed THEN SetAll(params, param_map, 1, readOnly) ELSE params

\* the fittings a document can hold: family, whether a connector leads to a
\* main pipe, direction of the side pipe, whether a reducer is connected at
\* both ends, and the parameter values
Families == {"multi T-stuk", "multibocht", "multireducer", "other"}
FittingShapes ==
    {[family |-> "multi T-stuk", onMain |-> TRUE, dir |-> d, connected |-> TRUE] :
        d \in {"Right", "Up"}}
    \cup {[family |-> "multi T-stuk", onMain |-> FALSE, dir |-> "Unknown", connected |-> TRUE]}
    \cup {[family |-> "multireducer", onMain |-> FALSE, dir |-> "Unknown", connected |-> c] :
            c \in BOOLEAN}
    \cup {[family |-> f, onMain |-> FALSE, dir |-> "Unknown", connected |-> FALSE] :
            f \in {"multibocht", "other"}}
FittingParams ==
    {[n \in ParamNames |-> IF n = "reducer_eccentric" THEN e ELSE v] :
        e \in {0, 1, NoParam}, v \in {0, 1}}
\* combinations of parameters on which p.Set raises
ReadOnlySets == {{}, {"switch_excentriciteit"}, {"reducer_eccentric"}}

AutoFixIdle == [stage |-> "idle", k |-> 0, shape |-> <<>>, params |-> <<>>, before |-> <<>>]

\* auto_fix entered: the fittings collected
AutoFixStart(shape, params) ==
    [stage |-> "tstuks", k |-> 1, shape |-> shape, params |-> params, before |-> params]

\* neither of the two other scripts has been started
ToolsIdle == /\ transfer = TransferIdle
             /\ autofix = AutoFixIdle

BoundaryIdle == /\ bSegs = <<>>
                /\ bPoly = NotResolved
                /\ collector = <<>>
                /\ elements_inside = <<>>

\* the open editor on a document whose pipes lie at ctr, with the text t in
\* the text box
InitWith(ctr, t) ==
    /\ phase = "editing"
    /\ pipeCond = [p \in Pipes |-> "ok"]
    /\ markers \in InitMarkerSets
    /\ \E inRegion \in SUBSET MarkerIdsOf(markers) :
          \* a marker whose host is not a pipe of the region matters only when it lies in the region
          /\ \A m \in markers : m.host = Outside => m.id \in inRegion
          /\ \E kind \in TaggedIdKinds :
                rows = filter_relevant_elements(
                           SetToSeq(Pipes \cup Fittings \cup inRegion), markers, pipeCond,
                           InitComments, kind)
    /\ nextId = NewBase + 1
    /\ txOpen = FALSE
    /\ fit = [switch |-> 0, bend45 |-> 1]
    /\ labels = 0
    /\ textNotePlaced = FALSE
    /\ text = t
    /\ comments = InitComments
    /\ views = [view |-> FALSE, sheet |-> FALSE]
    /\ start = [markers |-> markers, fit |-> fit]
    /\ centers = ctr
    /\ BoundaryIdle
    /\ ToolsIdle

Init == InitWith(PipesInARow, Placeholder)

\* ------------------------------------------------- tag add/remove handlers
\* A handler runs over a record S of what it reads and writes:
\*   markers, rows, nextId, txOpen, fit : as the variables
\*   newTag : the local variable new_tag (0 = not yet bound)
\*   sel    : the rows still to process, as current row indices; 0 stands for
\*            a row object that has been removed from the grid
\*   err    : an exception left the handler
\*   gone   : the exception came from a row object no longer in the grid
Raise(S) == [S EXCEPT !.err = TRUE]
\* the exception is raised between tr.Start() and tr.Commit()
RaiseInTx(S) == [S EXCEPT !.err = TRUE, !.txOpen = TRUE]

\* dataGrid.Rows.RemoveAt(j): later rows move up, the removed row object is detached
RemoveRowAt(S, j) ==
    [S EXCEPT !.rows = RemoveAt(@, j),
              !.sel = [k \in 1..Len(@) |-> IF @[k] = j THEN 0
                                           ELSE IF @[k] > j THEN @[k] - 1 ELSE @[k]]]

\* ElementEditorForm._add_row
add_row(S, data) == [S EXCEPT !.rows = Append(@, [data EXCEPT !.status = "Remove Tag"])]

\* branch  val == "Add/Place Tag"  of a "Pipes" row
AddTag(S, i, cond) ==
    LET p == S.rows[i].id
    IN IF ~PipeExists(cond, p) THEN RaiseInTx(S)
       ELSE LET S1 == IF PipeHasBBox(cond, p)
                      THEN [S EXCEPT !.markers = @ \cup {[id |-> S.nextId, host |-> p]},
                                     !.nextId = @ + 1,
                                     !.newTag = S.nextId]
                      ELSE S
                S2 == [S1 EXCEPT !.rows[i].status = "Remove Tag"]
            IN IF S2.newTag = 0 THEN Raise(S2)
               ELSE IF S2.newTag \notin MarkerIdsOf(S2.markers) THEN S2
               ELSE IF ~PipeHasComments(cond, p) THEN Raise(S2)
               ELSE add_row(S2, Row(S2.newTag, "Pipe Tags", "Yes", S2.rows[i].code))

\* RemoveTag that deletes the marker but leaves its mirrored row in the grid
RemoveTag_KeepsRow(S, i, cond) ==
    LET p == S.rows[i].id
        found == MarkersOfHost(S.markers, p)
    IN IF ~PipeExists(cond, p) THEN Raise(S)
       ELSE IF found = {} THEN S
       ELSE LET t == CHOOSE m \in found : \A n \in found : m.id <= n.id
            IN [S EXCEPT !.markers = @ \ {t},
                         !.rows[i].status = "Add/Place Tag"]

\* branch  val == "Remove Tag"  of a "Pipes" row
RemoveTag(S, i, cond) ==
    LET p == S.rows[i].id
        found == MarkersOfHost(S.markers, p)
    IN IF ~PipeExists(cond, p) THEN Raise(S)
       ELSE IF found = {} THEN S
       ELSE LET t == CHOOSE m \in found : \A n \in found : m.id <= n.id
                S1 == [S EXCEPT !.markers = @ \ {t},
                                !.rows[i].status = "Add/Place Tag"]
                hits == {j \in 1..Len(S1.rows) :
                            S1.rows[j].cat = "Pipe Tags" /\ S1.rows[j].id = t.id}
            IN IF hits = {} THEN S1
               ELSE RemoveRowAt(S1, CHOOSE j \in hits : \A h \in hits : j <= h)

\* RemoveTagRow that forgets to reset the host row
RemoveTagRow_NoHostReset(S, i) ==
    LET tagId == S.rows[i].id
        tagElem == {m \in S.markers : m.id = tagId}
    IN IF tagElem = {} THEN RaiseInTx(S)
       ELSE RemoveRowAt([S EXCEPT !.markers = @ \ tagElem], i)

\* branch  cat == "Pipe Tags" and val == "Remove Tag"
RemoveTagRow(S, i) ==
    LET tagId == S.rows[i].id
        tagElem == {m \in S.markers : m.id = tagId}
    IN IF tagElem = {} THEN RaiseInTx(S)
       ELSE LET t == CHOOSE m \in tagElem : TRUE
                S1 == RemoveRowAt([S EXCEPT !.markers = @ \ {t}], i)
                hostRows == {j \in 1..Len(S1.rows) :
                                S1.rows[j].id = t.host /\ S1.rows[j].cat = "Pipes"}
            IN IF hostRows = {} THEN S1
               ELSE [S1 EXCEPT !.rows[CHOOSE j \in hostRows : \A h \in hostRows : j <= h].status
                                   = "Add/Place Tag"]

\* FlipTstuk writing the flag of the other parameter as well
FlipTstuk_BothFlags(S) ==
    [S EXCEPT !.fit.switch = IF @ = 1 THEN 0 ELSE 1,
              !.fit.bend45 = IF @ = 1 THEN 0 ELSE 1]

\* branch  cat == "Pipe Fittings" and val == "Flip T-stuk"
FlipTstuk(S) == [S EXCEPT !.fit.switch = IF @ = 1 THEN 0 ELSE 1]

\* one iteration of  for row in selected_rows
ProcessRow(S, k, cond) ==
    LET i == S.sel[k]
    IN IF i = 0
       THEN \* a row object removed from the grid earlier in this loop
            [S EXCEPT !.err = TRUE, !.gone = TRUE]
       ELSE LET r == S.rows[i]
            IN CASE r.cat = "Pipe Fittings" /\ r.status = "Flip T-stuk" -> FlipTstuk(S)
                 [] r.cat = "Pipes" /\ r.status = "Add/Place Tag" -> AddTag(S, i, cond)
                 [] r.cat = "Pipes" /\ r.status = "Remove Tag" -> RemoveTag(S, i, cond)
                 [] r.cat = "Pipe Tags" /\ r.status = "Remove Tag" -> RemoveTagRow(S, i)
                 [] OTHER -> S

RECURSIVE RunRows(_, _, _)
RunRows(S, k, cond) ==
    IF k > Len(S.sel) \/ S.err THEN S
    ELSE RunRows(ProcessRow(S, k, cond), k + 1, cond)

HandlerState(ms, rs, nid, tx, ft, order) ==
    [markers |-> ms, rows |-> rs, nextId |-> nid, txOpen |-> tx, fit |-> ft,
     newTag |-> 0, sel |-> order, err |-> FALSE, gone |-> FALSE]

\* the whole of dataGrid_CellContentClick on the rows `order` (clicked row included)
ClickResult(ms, rs, nid, tx, ft, order, cond) ==
    RunRows(HandlerState(ms, rs, nid, tx, ft, order), 1, cond)

\* the whole of bulkAddRemoveTags_Click
BulkResult(ms, rs, nid, tx, ft, cond) ==
    RunRows(HandlerState(ms, rs, nid, tx, ft,
                         SetToSeq({i \in 1..Len(rs) : rs[i].cat = "Pipes"})),
            1, cond)

\* the orders in which a selection of at most MaxSel rows can be processed
\* (selected_indexes is a set: its iteration order is not fixed)
Selections ==
    UNION {Perms(sel) : sel \in {x \in SUBSET (1..Len(rows)) :
                                    Cardinality(x) >= 1 /\ Cardinality(x) <= MaxSel}}

Apply(S) ==
    /\ S.nextId <= NewBase + MaxNew + 1
    /\ markers' = S.markers
    /\ rows' = S.rows
    /\ nextId' = S.nextId
    \* a removed row object either raises on row.Cells[...] (no transaction
    \* started) or runs its branch on the deleted marker, where doc.Delete
    \* raises after tr.Start()
    /\ txOpen' \in (IF S.gone THEN {S.txOpen, TRUE} ELSE {S.txOpen})
    /\ fit' = S.fit
    /\ phase' = "editing"
    /\ UNCHANGED <<pipeCond, labels, textNotePlaced, text, comments, views, start, centers, bSegs, bPoly,
                   collector, elements_inside, transfer, autofix>>

dataGrid_CellContentClick(order) ==
    /\ phase = "editing"
    /\ Apply(ClickResult(markers, rows, nextId, txOpen, fit, order, pipeCond))

bulkAddRemoveTags_Click ==
    /\ phase = "editing"
    /\ Apply(BulkResult(markers, rows, nextId, txOpen, fit, pipeCond))

\* the document changes under the open form: a pipe is deleted (its tags go
\* with it or stay behind), is no longer visible in the active view, or
\* loses its "Comments" parameter
ExternalChange(p, c, cascade) ==
    /\ phase = "editing"
    /\ Cardinality({q \in Pipes : pipeCond[q] # "ok"}) < MaxDefects
    /\ pipeCond[p] = "ok"
    /\ pipeCond' = [pipeCond EXCEPT ![p] = c]
    /\ markers' = IF c = "deleted" /\ cascade THEN markers \ MarkersOfHost(markers, p) ELSE markers
    /\ UNCHANGED <<phase, rows, nextId, txOpen, fit, labels, textNotePlaced, text,
                   comments, views, start, centers, bSegs, bPoly,
                   collector, elements_inside, transfer, autofix>>

\* ------------------------------------------------- other actions of the form
\* the user types into txtTextNoteCode
EditText(t) ==
    /\ phase = "editing"
    /\ text # t
    /\ text' = t
    /\ UNCHANGED <<phase, pipeCond, markers, rows, nextId, txOpen, fit, labels,
                   textNotePlaced, comments, views, start, centers, bSegs, bPoly,
                   collector, elements_inside, transfer, autofix>>

btnPlaceTextNote_Click ==
    /\ phase = "editing"
    /\ text # <<>>
    /\ labels < MaxLabels
    /\ labels' = labels + 1
    /\ textNotePlaced' = TRUE
    /\ UNCHANGED <<phase, pipeCond, markers, rows, nextId, txOpen, fit, text,
                   comments, views, start, centers, bSegs, bPoly,
                   collector, elements_inside, transfer, autofix>>

\* sort key (X, Y) of pipe_entries.sort and pipe_centers.sort; ties keep the original order
KeyLess(a, b) == \/ a[1] < b[1]
                 \/ (a[1] = b[1] /\ a[2] < b[2])

\* base + "." + str(n)
Numbered(base, n) == base \o <<".">> \o IntToStr(n)

\* codes the user types into a NewCode cell
TypedCodes == {<<"7", ".", "7">>}

\* the user edits the NewCode cell of row i
EditCode(i, c) ==
    /\ phase = "editing"
    /\ rows[i].code # c
    /\ Cardinality({j \in 1..Len(rows) : rows[j].code \in TypedCodes}) < MaxEdits
    /\ rows' = [rows EXCEPT ![i].code = c]
    /\ UNCHANGED <<phase, pipeCond, markers, nextId, txOpen, fit, labels, textNotePlaced,
                   text, comments, views, start, centers, bSegs, bPoly,
                   collector, elements_inside, transfer, autofix>>

\* autoFillPipeTagCodes: centre used as sort key, XYZ(0, 0, 0) without a bounding box
FillKey(p, cond) == IF PipeHasBBox(cond, p) THEN PipeCenter(p) ELSE <<0, 0>>

\* a sort that puts rows with equal keys in reverse row order
FillRank_TiesReversed(pipe_rows, rs, k, cond) ==
    1 + Cardinality({j \in 1..Len(pipe_rows) :
                        \/ KeyLess(FillKey(rs[pipe_rows[j]].id, cond), FillKey(rs[pipe_rows[k]].id, cond))
                        \/ (/\ ~KeyLess(FillKey(rs[pipe_rows[k]].id, cond), FillKey(rs[pipe_rows[j]].id, cond))
                            /\ j > k)})

\* rank (1-based) of pipe row k in pipe_centers.sort (stable)
FillRank(pipe_rows, rs, k, cond) ==
    1 + Cardinality({j \in 1..Len(pipe_rows) :
                        \/ KeyLess(FillKey(rs[pipe_rows[j]].id, cond), FillKey(rs[pipe_rows[k]].id, cond))
                        \/ (/\ ~KeyLess(FillKey(rs[pipe_rows[k]].id, cond), FillKey(rs[pipe_rows[j]].id, cond))
                            /\ j < k)})

\* Auto-Fill that gives every marker row the code of its own host's row
AutoFillRows_MirrorsHost(rs, raw, cond) ==
    LET base == ParseBase(raw)
        pipe_rows == SetToSeq({i \in 1..Len(rs) : rs[i].cat = "Pipes"})
        rankOfRow(i) == FillRank(pipe_rows, rs, CHOOSE k \in 1..Len(pipe_rows) : pipe_rows[k] = i, cond)
        hostRow(i) == {j \in SeqRange(pipe_rows) :
                          \E m \in markers : m.id = rs[i].id /\ m.host = rs[j].id}
    IN IF base = <<>> THEN rs
       ELSE [i \in 1..Len(rs) |->
               IF rs[i].cat = "Pipe Fittings" THEN [rs[i] EXCEPT !.code = base]
               ELSE IF i \in SeqRange(pipe_rows)
               THEN [rs[i] EXCEPT !.code = Numbered(base, rankOfRow(i))]
               ELSE IF hostRow(i) # {}
               THEN [rs[i] EXCEPT !.code = Numbered(base, rankOfRow(CHOOSE j \in hostRow(i) : TRUE))]
               ELSE rs[i]]

\* the rows after autoFillPipeTagCodes
AutoFillRows(rs, raw, cond) ==
    LET base == ParseBase(raw)
        fit_rows == {i \in 1..Len(rs) : rs[i].cat = "Pipe Fittings"}
        pipe_rows == SetToSeq({i \in 1..Len(rs) : rs[i].cat = "Pipes"})
        tag_rows == SetToSeq({i \in 1..Len(rs) : rs[i].cat = "Pipe Tags"})
        fitted == [i \in 1..Len(rs) |-> IF i \in fit_rows THEN [rs[i] EXCEPT !.code = base] ELSE rs[i]]
        rankOfRow(i) == FillRank(pipe_rows, rs, CHOOSE k \in 1..Len(pipe_rows) : pipe_rows[k] = i, cond)
        tagPos(i) == CHOOSE k \in 1..Len(tag_rows) : tag_rows[k] = i
    IN IF base = <<>> THEN rs                    \* "Could not parse base code": return
       ELSE IF \E k \in 1..Len(pipe_rows) : ~PipeExists(cond, rs[pipe_rows[k]].id)
       THEN fitted                               \* elem is None: AttributeError after the fittings
       ELSE [i \in 1..Len(rs) |->
               IF i \in fit_rows THEN fitted[i]
               ELSE IF i \in SeqRange(pipe_rows)
               THEN [rs[i] EXCEPT !.code = Numbered(base, rankOfRow(i))]
               ELSE IF i \in SeqRange(tag_rows) /\ tagPos(i) <= Len(pipe_rows)
               THEN [rs[i] EXCEPT !.code = Numbered(base, tagPos(i))]
               ELSE rs[i]]

autoFillPipeTagCodes ==
    /\ phase = "editing"
    /\ rows' = AutoFillRows(rows, text, pipeCond)
    /\ UNCHANGED <<phase, pipeCond, markers, nextId, txOpen, fit, labels, textNotePlaced,
                   text, comments, views, start, centers, bSegs, bPoly,
                   collector, elements_inside, transfer, autofix>>

\* auto_fix_inline on the fitting: the concentric reducer is fixed
\* (switch_excentriciteit off) and 2x45 is turned off
btnFixReducers_Click ==
    /\ phase = "editing"
    /\ fit' = [switch |-> 0, bend45 |-> 0]
    /\ UNCHANGED <<phase, pipeCond, markers, rows, nextId, txOpen, labels,
                   textNotePlaced, text, comments, views, start, centers, bSegs, bPoly,
                   collector, elements_inside, transfer, autofix>>

okButton_Click ==
    /\ phase = "editing"
    /\ phase' = "confirmed"
    /\ UNCHANGED <<pipeCond, markers, rows, nextId, txOpen, fit, labels,
                   textNotePlaced, text, comments, views, start, centers, bSegs, bPoly,
                   collector, elements_inside, transfer, autofix>>

\* btnCancel / closing the form: show_element_editor returns None, sys.exit
Cancel ==
    /\ phase = "editing"
    /\ phase' = "cancelled"
    /\ UNCHANGED <<pipeCond, markers, rows, nextId, txOpen, fit, labels,
                   textNotePlaced, text, comments, views, start, centers, bSegs, bPoly,
                   collector, elements_inside, transfer, autofix>>

\* --------------------------------------------------------- final commit
\* rank (1-based) of entry k in the stable sort of the entries by centre
SortRank(entries, k) ==
    1 + Cardinality({j \in 1..Len(entries) :
                        \/ KeyLess(PipeCenter(entries[j].id), PipeCenter(entries[k].id))
                        \/ (/\ ~KeyLess(PipeCenter(entries[k].id), PipeCenter(entries[j].id))
                            /\ j < k)})

\* main workflow, lines 1367-1400
RenumberRows(rs, raw, placed, cond) ==
    LET m == ParseBase(raw)
        base == IF m # <<>> THEN m ELSE <<"0">>
        idxs == SetToSeq({i \in 1..Len(rs) :
                            rs[i].cat = "Pipes" /\ PipeExists(cond, rs[i].id) /\ PipeHasBBox(cond, rs[i].id)})
        entries == [k \in 1..Len(idxs) |-> [idx |-> idxs[k], id |-> rs[idxs[k]].id]]
        rankOf(i) == SortRank(entries, CHOOSE k \in 1..Len(entries) : entries[k].idx = i)
    IN [i \in 1..Len(rs) |->
          IF rs[i].cat = "Pipe Fittings"
          THEN [rs[i] EXCEPT !.code = IF placed THEN raw ELSE base]
          ELSE IF ~placed /\ i \in SeqRange(idxs)
          THEN [rs[i] EXCEPT !.code = Numbered(base, rankOf(i))]
          ELSE rs[i]]

Renumber ==
    /\ phase = "confirmed"
    /\ rows' = RenumberRows(rows, text, textNotePlaced, pipeCond)
    /\ phase' = "renumbered"
    /\ UNCHANGED <<pipeCond, markers, nextId, txOpen, fit, labels, textNotePlaced,
                   text, comments, views, start, centers, bSegs, bPoly,
                   collector, elements_inside, transfer, autofix>>

\* doc.GetElement(eid) and its writable "Comments" parameter exist
Writable(id, ms, cond) ==
    IF id \in Pipes THEN PipeHasComments(cond, id)
    ELSE IF id \in Fittings THEN TRUE
    ELSE id \in MarkerIdsOf(ms)

\* transaction "Update Comments": rows are written in order, a later row wins
RECURSIVE WriteComments(_, _, _, _, _, _)
WriteComments(cm, rs, k, raw, ms, cond) ==
    IF k > Len(rs) THEN cm
    ELSE LET r == rs[k]
             cm1 == IF Writable(r.id, ms, cond)
                    THEN [cm EXCEPT ![r.id] = IF r.cat = "Pipe Fittings" THEN raw ELSE r.code]
                    ELSE cm
         IN WriteComments(cm1, rs, k + 1, raw, ms, cond)

UpdateComments ==
    /\ phase = "renumbered"
    /\ comments' = WriteComments(comments, rows, 1, text, markers, pipeCond)
    /\ phase' = "updated"
    /\ UNCHANGED <<pipeCond, markers, rows, nextId, txOpen, fit, labels, textNotePlaced,
                   text, views, start, centers, bSegs, bPoly,
                   collector, elements_inside, transfer, autofix>>

\* transaction "Place Text Note at Region Corner"
PlaceTextNoteAtCorner ==
    /\ phase = "updated"
    /\ labels' = IF textNotePlaced THEN labels ELSE labels + 1
    /\ phase' = "noted"
    /\ UNCHANGED <<pipeCond, markers, rows, nextId, txOpen, fit, textNotePlaced,
                   text, comments, views, start, centers, bSegs, bPoly,
                   collector, elements_inside, transfer, autofix>>

\* transaction "Create Cropped Plan View"; nameTaken: a view named base exists
CreateView(nameTaken) ==
    /\ phase = "noted"
    /\ IF nameTaken
       THEN /\ phase' = "dup_view"
            /\ views' = views
       ELSE /\ phase' = "viewed"
            /\ views' = [views EXCEPT !.view = TRUE]
    /\ UNCHANGED <<pipeCond, markers, rows, nextId, txOpen, fit, labels, textNotePlaced,
                   text, comments, start, centers, bSegs, bPoly,
                   collector, elements_inside, transfer, autofix>>

\* sheet creation; numberTaken: base is in existing_numbers
CreateSheet(numberTaken) ==
    /\ phase = "viewed"
    /\ IF numberTaken
       THEN /\ phase' = "dup_sheet"
            /\ views' = views
       ELSE /\ phase' = "done"
            /\ views' = [views EXCEPT !.sheet = TRUE]
    /\ UNCHANGED <<pipeCond, markers, rows, nextId, txOpen, fit, labels, textNotePlaced,
                   text, comments, start, centers, bSegs, bPoly,
                   collector, elements_inside, transfer, autofix>>

\* ------------------------------------------------------------ specification
\* the editable table while it is open: tag add/remove/toggle handlers
Next ==
    \/ \E o \in Selections : dataGrid_CellContentClick(o)
    \/ bulkAddRemoveTags_Click
    \/ \E p \in Pipes, c \in PipeConds \ {"ok"}, cs \in BOOLEAN : ExternalChange(p, c, cs)

Spec == Init /\ [][Next]_vars

\* the whole workflow from the open table to the end of the script, with
\* single-row clicks on an unchanging document
NextWorkflow ==
    \/ \E i \in 1..Len(rows) : dataGrid_CellContentClick(<<i>>)
    \/ \E t \in Texts : EditText(t)
    \/ btnPlaceTextNote_Click
    \/ btnFixReducers_Click
    \/ okButton_Click
    \/ Cancel
    \/ Renumber
    \/ UpdateComments
    \/ PlaceTextNoteAtCorner
    \/ \E b \in BOOLEAN : CreateView(b)
    \/ \E b \in BOOLEAN : CreateSheet(b)

SpecWorkflow == Init /\ [][NextWorkflow]_vars

\* ------------------------------------ specification: single-row tag clicks
\* an editor session in which every click on a TagStatus cell is dispatched
\* to the clicked row alone and the document changes through the editor only
NextSingleClick == \E i \in 1..Len(rows) : dataGrid_CellContentClick(<<i>>)

SpecSingleClick == Init /\ [][NextSingleClick]_vars

\* ------------------------------------------- specification: code editing
\* the editor and the write-back of the codes: single-row tag clicks, typed
\* codes, the text box, Auto-Fill, Place Text Note, OK, then the renumbering
\* and the "Update Comments" transaction
NextCodes ==
    \/ \E i \in 1..Len(rows) : dataGrid_CellContentClick(<<i>>)
    \/ \E i \in 1..Len(rows), c \in TypedCodes : EditCode(i, c)
    \/ \E t \in Texts : EditText(t)
    \/ autoFillPipeTagCodes
    \/ btnPlaceTextNote_Click
    \/ okButton_Click
    \/ Renumber
    \/ UpdateComments

SpecCodes == Init /\ [][NextCodes]_vars

\* ------------------------------------------------ specification: Auto-Fill
\* where the centre of a pipe's bounding box can lie: (0,0) (1,0) (2,0) (0,1) (1,1) ...
CenterPoints == {<<k % 3, k \div 3>> : k \in 0..(NCenters - 1)}

\* Auto-Fill pressed in the freshly opened editor, for every placement of the
\* pipes and every text of the text box
InitAutoFill == \E ctr \in [Pipes -> CenterPoints], t \in Texts : InitWith(ctr, t)

NextAutoFill == autoFillPipeTagCodes

SpecAutoFill == InitAutoFill /\ [][NextAutoFill]_vars

\* --------------------------------------- specification: boundary selection
\* the pipes as the elements of the active view, each with the box of a point
\* at its centre
PipesInView(ctr) ==
    [p \in 1..NPipes |->
        [id |-> p,
         bbox |-> BoundingBox([X |-> ctr[p][1], Y |-> ctr[p][2], Z |-> 0],
                              [X |-> ctr[p][1], Y |-> ctr[p][2], Z |-> 0])]]

\* the detail lines picked in select_boundary_and_gather, in pick order
PickedSegments(n) == [1..n -> Segments]

\* the script before the editor exists: nothing scanned, nothing written
InitBoundary ==
    /\ phase = "picking"
    /\ pipeCond = [p \in Pipes |-> "ok"]
    /\ markers = {}
    /\ rows = <<>>
    /\ nextId = NewBase + 1
    /\ txOpen = FALSE
    /\ fit = [switch |-> 0, bend45 |-> 1]
    /\ labels = 0
    /\ textNotePlaced = FALSE
    /\ text = Placeholder
    /\ comments = InitComments
    /\ views = [view |-> FALSE, sheet |-> FALSE]
    /\ start = [markers |-> {}, fit |-> [switch |-> 0, bend45 |-> 1]]
    /\ centers = PipesInARow
    /\ \E n \in 0..MaxSegs : bSegs \in PickedSegments(n)
    /\ bPoly = NotResolved
    /\ collector = PipesInView(PipesInARow)
    /\ elements_inside = <<>>
    /\ ToolsIdle

\* select_boundary_and_gather: a pick that was cancelled or is empty returns
\* None at once; a resolver result of None shows the error box and returns
\* None; a polygon goes on to the loop over the collector
select_boundary_and_gather ==
    /\ phase = "picking"
    /\ bPoly' = IF bSegs = <<>> THEN bPoly ELSE order_segments_to_polygon(bSegs)
    /\ IF bPoly'.kind # "Polygon"
       THEN /\ phase' = "aborted"
            /\ elements_inside' = elements_inside
       ELSE /\ phase' = "gathering"
            /\ elements_inside' = GatherFrom(collector, bPoly'.pts, 1, <<>>)
    /\ UNCHANGED <<pipeCond, markers, rows, nextId, txOpen, fit, labels,
                   textNotePlaced, text, comments, views, start, centers, bSegs,
                   collector, transfer, autofix>>

\* main script from the return of select_boundary_and_gather to the open
\* editor: nothing gathered or nothing of a listed category ends the script
\* after an error box, otherwise the rows of filter_relevant_elements fill
\* the grid of the editor
show_element_editor ==
    /\ phase = "gathering"
    /\ IF elements_inside = <<>>
       THEN /\ phase' = "aborted"
            /\ rows' = rows
       ELSE \E kind \in TaggedIdKinds :
               LET filtered_elements ==
                       filter_relevant_elements(elements_inside, markers, pipeCond,
                                                comments, kind)
               IN IF Len(filtered_elements) = 0
                  THEN /\ phase' = "aborted"
                       /\ rows' = rows
                  ELSE /\ phase' = "editing"
                       /\ rows' = filtered_elements
    /\ UNCHANGED <<pipeCond, markers, nextId, txOpen, fit, labels,
                   textNotePlaced, text, comments, views, start, centers, bSegs, bPoly,
                   collector, elements_inside, transfer, autofix>>

NextBoundary == select_boundary_and_gather

SpecBoundary == InitBoundary /\ [][NextBoundary]_vars

\* ------------------------------------------ specification: region gathering
\* corners of the picked boundaries: the grid points (0,0) .. (RegionSide, RegionSide),
\* counted row by row
RegionPoint(k) == [X |-> k % (RegionSide + 1), Y |-> k \div (RegionSide + 1), Z |-> 0]
RegionIndex == 0..((RegionSide + 1) * (RegionSide + 1) - 1)

\* the detail lines joining consecutive corners, the last corner to the first
LoopOf(corners) ==
    [i \in 1..Len(corners) |-> <<corners[i], corners[(i % Len(corners)) + 1]>>]

\* every triangle on the grid, flat ones included
Triangles ==
    {<<RegionPoint(t[1]), RegionPoint(t[2]), RegionPoint(t[3])>> :
        t \in {q \in RegionIndex \X RegionIndex \X RegionIndex : q[1] < q[2] /\ q[2] < q[3]}}

\* the rectangle with the corners (a, c) and (b, d), walked around and walked
\* crosswise
RectangleWalks(a, b, c, d) ==
    LET sw == [X |-> a, Y |-> c, Z |-> 0]
        se == [X |-> b, Y |-> c, Z |-> 0]
        ne == [X |-> b, Y |-> d, Z |-> 0]
        nw == [X |-> a, Y |-> d, Z |-> 0]
    IN {<<sw, se, ne, nw>>, <<sw, se, nw, ne>>}

\* every axis-parallel rectangle on the grid
Quadrilaterals ==
    UNION {RectangleWalks(r[1], r[2], r[3], r[4]) :
              r \in {q \in (0..RegionSide) \X (0..RegionSide) \X (0..RegionSide) \X (0..RegionSide) :
                        q[1] < q[2] /\ q[3] < q[4]}}

\* boxes of one grid cell, their lower corner on one of the Points
Boxes == {BoundingBox(pt, [X |-> pt.X + 1, Y |-> pt.Y + 1, Z |-> pt.Z]) : pt \in Points}

\* the views of up to n elements, numbered in collector order, each with one
\* of the given boxes
ViewsOf(boxes, n) ==
    UNION {{[k \in 1..m |-> [id |-> k, bbox |-> f[k]]] : f \in [1..m -> boxes]} : m \in 0..n}

\* the script before the editor exists: one of the given lists of detail
\* lines picked, on one of the given views, in a document with one of the
\* given sets of markers and conditions of the pipes; a marker of the view
\* is a marker of the document
InitScript(picks, viewSet, markerSets, conds) ==
    /\ phase = "picking"
    /\ pipeCond \in conds
    /\ markers \in markerSets
    /\ rows = <<>>
    /\ nextId = NewBase + 1
    /\ txOpen = FALSE
    /\ fit = [switch |-> 0, bend45 |-> 1]
    /\ labels = 0
    /\ textNotePlaced = FALSE
    /\ text = Placeholder
    /\ comments = InitComments
    /\ views = [view |-> FALSE, sheet |-> FALSE]
    /\ start = [markers |-> markers, fit |-> fit]
    /\ centers = PipesInARow
    /\ bSegs \in picks
    /\ bPoly = NotResolved
    /\ collector \in viewSet
    /\ \A k \in 1..Len(collector) :
          collector[k].id \in InitMarkerIds => collector[k].id \in MarkerIdsOf(markers)
    /\ elements_inside = <<>>
    /\ ToolsIdle

\* the same with a closed walk over the given corners picked, in a document
\* without markers
InitPicking(loops, viewSet) ==
    InitScript({LoopOf(corners) : corners \in loops}, viewSet, {{}}, {[p \in Pipes |-> "ok"]})

\* a view of up to MaxElems elements with any boxes or none, and a triangle
\* or a walk over the corners of a rectangle picked
InitGather ==
    InitPicking(Triangles \cup Quadrilaterals, ViewsOf(Boxes \cup {NoBoundingBox}, MaxElems))

NextGather == select_boundary_and_gather

SpecGather == InitGather /\ [][NextGather]_vars

\* --------------------------------- specification: gathering in a rectangle
\* the corners s[k+1], s[k+2], ... of a closed walk, started k corners later
Rotated(s, k) == [i \in 1..Len(s) |-> s[((i + k - 1) % Len(s)) + 1]]
\* the same walk in the other direction
Reversed(s) == [i \in 1..Len(s) |-> s[Len(s) + 1 - i]]

\* the rectangle with the corners (a, c) and (b, d) walked around, from every
\* corner and in both directions
RectangleLoops(a, b, c, d) ==
    LET around == <<[X |-> a, Y |-> c, Z |-> 0], [X |-> b, Y |-> c, Z |-> 0],
                    [X |-> b, Y |-> d, Z |-> 0], [X |-> a, Y |-> d, Z |-> 0]>>
    IN {Rotated(around, k) : k \in 1..Len(around)} \cup {Rotated(Reversed(around), k) : k \in 1..Len(around)}

Rectangles ==
    UNION {RectangleLoops(r[1], r[2], r[3], r[4]) :
              r \in {q \in (0..RegionSide) \X (0..RegionSide) \X (0..RegionSide) \X (0..RegionSide) :
                        q[1] < q[2] /\ q[3] < q[4]}}

\* boxes without extent, on one of the Points
PointBoxes == {BoundingBox(pt, pt) : pt \in Points}

\* a rectangle picked from any corner in any direction, on a view of one
\* element whose centre is in the middle of a grid cell or on a grid point
InitRectangle ==
    InitPicking(Rectangles,
                {<<[id |-> 1, bbox |-> b]>> : b \in Boxes \cup PointBoxes})

NextRectangle == select_boundary_and_gather

SpecRectangle == InitRectangle /\ [][NextRectangle]_vars

\* ----------------------------------- specification: from the pick to the editor
\* the elements a view is made of here: a pipe, the fitting, a marker, a
\* detail line and a text note
ScanIds == {1, FitBase + 1, MarkerBase + 1, LineBase + 1, NoteBase + 1}

\* the views of up to n of the given elements, in the order of their ids,
\* each with one of the given boxes
ViewsOver(ids, boxes, n) ==
    UNION {{[k \in 1..Cardinality(S) |-> [id |-> SetToSeq(S)[k], bbox |-> f[SetToSeq(S)[k]]]] :
               f \in [S -> boxes]} :
           S \in {T \in SUBSET ids : Cardinality(T) <= n}}

\* the box of the grid cell at the origin
CellBox == BoundingBox([X |-> 0, Y |-> 0, Z |-> 0], [X |-> 1, Y |-> 1, Z |-> 0])

\* what can be picked: nothing (the pick was cancelled), a walk over the
\* corners of a rectangle, or such a walk with its last line left out
StartPicks ==
    {<<>>}
      \cup {LoopOf(corners) : corners \in Quadrilaterals}
      \cup {SubSeq(LoopOf(corners), 1, Len(corners) - 1) : corners \in Quadrilaterals}

InitStart ==
    InitScript(StartPicks, ViewsOver(ScanIds, {CellBox, NoBoundingBox}, MaxElems),
               InitMarkerSets, {[p \in Pipes |-> "ok"]})

NextStart ==
    \/ select_boundary_and_gather
    \/ show_element_editor

SpecStart == InitStart /\ [][NextStart]_vars

\* ------------------------------ specification: the scan of a defective region
\* the pipes as they can be when the script starts: up to MaxDefects of them
\* without a "Comments" parameter
ScanConds ==
    {c \in [Pipes -> {"ok", "nocomments"}] :
        Cardinality({p \in Pipes : c[p] # "ok"}) <= MaxDefects}

InitScan ==
    InitScript(StartPicks, ViewsOver(ScanIds, {CellBox, NoBoundingBox}, MaxElems),
               InitMarkerSets, ScanConds)

NextScan ==
    \/ select_boundary_and_gather
    \/ show_element_editor

SpecScan == InitScan /\ [][NextScan]_vars

\* ================================================================== claims
PipeRows(rs) == {i \in 1..Len(rs) : rs[i].cat = "Pipes"}
TagRows(rs) == {i \in 1..Len(rs) : rs[i].cat = "Pipe Tags"}
RowsOfId(rs, cat, id) == {i \in 1..Len(rs) : rs[i].cat = cat /\ rs[i].id = id}
Tagged(rs, i) == rs[i].cat = "Pipes" /\ rs[i].status = "Remove Tag"
Untagged(rs, i) == rs[i].cat = "Pipes" /\ rs[i].status = "Add/Place Tag"

\* C1: every pipe of the document whose row shows 'Remove Tag' has exactly
\* one marker recording it as host, and no pipe has more than one marker.
C1_TaggedHostHasOneMarker ==
    /\ \A i \in PipeRows(rows) :
          (Tagged(rows, i) /\ PipeExists(pipeCond, rows[i].id))
              => Cardinality(MarkersOfHost(markers, rows[i].id)) = 1
    /\ \A p \in Pipes : Cardinality(MarkersOfHost(markers, p)) <= 1

\* C2: every marker of the document whose host is a pipe of the region is
\* shown by exactly one marker row, no marker id appears in two rows, and no
\* marker row refers to a marker that is no longer in the document.
C2_OneRowPerMarker ==
    /\ \A m \in markers :
          m.host \in Pipes => Cardinality(RowsOfId(rows, "Pipe Tags", m.id)) = 1
    /\ \A i \in TagRows(rows) :
          /\ Cardinality(RowsOfId(rows, "Pipe Tags", rows[i].id)) = 1
          /\ rows[i].id \in MarkerIdsOf(markers)

\* the rows of a batch whose AddTag can succeed: Untagged pipe rows whose
\* entity exists, has a bounding box and a "Comments" parameter
AddableIn(order) ==
    {k \in 1..Len(order) : Untagged(rows, order[k]) /\ pipeCond[rows[order[k]].id] = "ok"}
\* the rows of a batch whose underlying entity no longer exists
MissingIn(order) ==
    {k \in 1..Len(order) : rows[order[k]].cat = "Pipes" /\ ~PipeExists(pipeCond, rows[order[k]].id)}
\* after the step the pipe's row shows 'Remove Tag' and the step created a marker for it
ReachedTagged(p) ==
    /\ \E j \in PipeRows(rows') : rows'[j].id = p /\ Tagged(rows', j)
    /\ \E m \in markers' \ markers : m.host = p
    /\ \E m \in markers' \ markers : RowsOfId(rows', "Pipe Tags", m.id) # {}
ContinuesOnError(order) ==
    MissingIn(order) # {} => \A k \in AddableIn(order) : ReachedTagged(rows[order[k]].id)

\* C3: in a batch of AddTag actions, a row whose entity no longer exists does
\* not stop the other selected rows: each of them still reaches Tagged with a
\* new marker and a marker row.
C3_BatchContinuesOnError ==
    [][ /\ \A o \in Selections : dataGrid_CellContentClick(o) => ContinuesOnError(o)
        /\ bulkAddRemoveTags_Click => ContinuesOnError(SetToSeq(PipeRows(rows))) ]_vars

\* C4: a single AddTag or RemoveTag that fails internally leaves the marker
\* set and the row set (statuses included) as they were and leaves no
\* transaction open.
C4_FailedActionIsAtomic ==
    [][ \A i \in 1..Len(rows) :
          ( /\ dataGrid_CellContentClick(<<i>>)
            /\ ClickResult(markers, rows, nextId, txOpen, fit, <<i>>, pipeCond).err )
          => (markers' = markers /\ rows' = rows /\ ~txOpen') ]_vars

\* C5: when the user cancels the table, the document is as it was when the
\* workflow started: same markers, same fitting flags, no label created, no
\* code written.
C5_CancelMeansNoMutation ==
    phase = "cancelled" =>
        /\ markers = start.markers
        /\ fit = start.fit
        /\ labels = 0
        /\ comments = InitComments

\* C6: when the base code collides with an existing view name or sheet
\* number, none of the final-commit mutations has been applied: no code
\* written to an entity, no label placed by the commit, no view created.
C6_DuplicateBlocksCommit ==
    phase \in {"dup_view", "dup_sheet"} =>
        /\ comments = InitComments
        /\ (~textNotePlaced => labels = 0)
        /\ ~views.view

\* the result of a click on row i alone, from the current state
SingleClick(i) == ClickResult(markers, rows, nextId, txOpen, fit, <<i>>, pipeCond)
\* the result of a second click on row i alone, after the handler result A
ClickAgain(A, i) == ClickResult(A.markers, A.rows, A.nextId, A.txOpen, A.fit, <<i>>, pipeCond)

\* C7: round trip.  From an Untagged host (row 'Add/Place Tag', no marker
\* records it), an AddTag that completes followed by RemoveTag on the same
\* row gives: host Untagged again, exactly the created marker deleted, no
\* marker row for it, and the row count as before the AddTag.
C7_AddThenRemoveRoundTrip ==
    \A i \in PipeRows(rows) :
        (Untagged(rows, i) /\ MarkersOfHost(markers, rows[i].id) = {}) =>
            LET A == SingleClick(i)
                B == ClickAgain(A, i)
            IN ~A.err =>
                 /\ Tagged(A.rows, i)
                 /\ A.markers = markers \cup {[id |-> nextId, host |-> rows[i].id]}
                 /\ Len(A.rows) = Len(rows) + 1
                 /\ ~B.err
                 /\ Untagged(B.rows, i)
                 /\ B.markers = markers
                 /\ RowsOfId(B.rows, "Pipe Tags", nextId) = {}
                 /\ Len(B.rows) = Len(rows)

\* a host that went through the round trip: a marker was created, it is gone
\* again together with its row, and the host is Untagged with no marker
C7_Witness ==
    /\ nextId > NewBase + 1
    /\ \A n \in NewIds : n \notin MarkerIdsOf(markers) /\ RowsOfId(rows, "Pipe Tags", n) = {}
    /\ \E i \in PipeRows(rows) :
          /\ Untagged(rows, i)
          /\ MarkersOfHost(markers, rows[i].id) = {}
          /\ pipeCond[rows[i].id] = "ok"
          /\ ~SingleClick(i).err

\* the statuses shown by the "Pipes" rows of host h
HostStatus(rs, h) == {rs[j].status : j \in RowsOfId(rs, "Pipes", h)}

\* the rows as RemoveTag on marker row i must leave them: row i removed and
\* the first row of the marker's host reset to 'Add/Place Tag'
RowsAfterMarkerRemoved(i, h) ==
    LET rs == RemoveAt(rows, i)
        hr == RowsOfId(rs, "Pipes", h)
    IN IF hr = {} THEN rs
       ELSE [rs EXCEPT ![CHOOSE j \in hr : \A k \in hr : j <= k].status = "Add/Place Tag"]

KeepsTag(p) ==
    /\ MarkersOfHost(markers', p) = MarkersOfHost(markers, p)
    /\ \A m \in MarkersOfHost(markers, p) :
          Cardinality(RowsOfId(rows', "Pipe Tags", m.id)) = Cardinality(RowsOfId(rows, "Pipe Tags", m.id))
    /\ \E j \in PipeRows(rows') : rows'[j].id = p /\ Tagged(rows', j)
C9_AddTagSkipsTaggedHosts ==
    [][ \A o \in Selections :
          ( /\ dataGrid_CellContentClick(o)
            /\ Len(o) > 1
            /\ \E k \in 1..Len(o) : Untagged(rows, o[k]) )
          => \A k \in 1..Len(o) : Tagged(rows, o[k]) => KeepsTag(rows[o[k]].id) ]_vars

\* C10: the resolver returns a polygon only if every picked segment was
\* attached to the chain and the chain's last point meets its first point;
\* whenever a segment is left in the pool the result is None.
C10_SuccessNeedsEmptyPool ==
    phase # "picking" =>
        /\ bPoly.kind = "Polygon" =>
              /\ Chained(bSegs).segments = <<>>
              /\ points_are_close(Chained(bSegs).polygon[1],
                                  Chained(bSegs).polygon[Len(Chained(bSegs).polygon)])
        /\ (bSegs # <<>> /\ Chained(bSegs).segments # <<>>) => bPoly.kind = "None"

\* end points of the picked segments
Vertices(segs) == {segs[i][1] : i \in 1..Len(segs)} \cup {segs[i][2] : i \in 1..Len(segs)}
\* segment seg joins the points a and b, in either orientation
Joins(seg, a, b) ==
    \/ points_are_close(seg[1], a) /\ points_are_close(seg[2], b)
    \/ points_are_close(seg[1], b) /\ points_are_close(seg[2], a)
\* some picked segment joins a and b
Joined(segs, a, b) == \E k \in 1..Len(segs) : Joins(segs[k], a, b)

\* number of segment ends that lie on the point v
Degree(segs, v) ==
    Cardinality({i \in 1..Len(segs) : points_are_close(segs[i][1], v)})
      + Cardinality({i \in 1..Len(segs) : points_are_close(segs[i][2], v)})

\* the vertices that can be reached from the set S along picked segments
RECURSIVE Reachable(_, _)
Reachable(segs, S) ==
    LET T == S \cup {v \in Vertices(segs) : \E u \in S : Joined(segs, u, v)}
    IN IF T = S THEN S ELSE Reachable(segs, T)
Connected(segs) == Reachable(segs, {segs[1][1]}) = Vertices(segs)

\* n >= 3 segments on n vertices, connected, two segment ends on every
\* vertex: the segments are the edges of one cycle through every vertex once
SimpleClosedLoop(segs) ==
    /\ Len(segs) >= 3
    /\ Cardinality(Vertices(segs)) = Len(segs)
    /\ \A v \in Vertices(segs) : Degree(segs, v) = 2
    /\ Connected(segs)

\* a simple closed loop with one of its segments taken away: n - 1 >= 2
\* segments on n vertices, connected, at most two segment ends on a vertex:
\* the segments are the edges of one path through every vertex once
LoopMissingOneLink(segs) ==
    /\ Len(segs) >= 2
    /\ Cardinality(Vertices(segs)) = Len(segs) + 1
    /\ \A v \in Vertices(segs) : Degree(segs, v) <= 2
    /\ Connected(segs)

\* C11: for picked segments that form a simple closed loop, in any pick order
\* and any orientation of each segment, the resolver returns a polygon whose
\* points are exactly the loop's vertices, each once, and every two
\* cyclically consecutive points are joined by a picked segment.
C11_LoopGivesItsPolygon ==
    (phase # "picking" /\ SimpleClosedLoop(bSegs)) =>
        /\ bPoly.kind = "Polygon"
        /\ SeqRange(bPoly.pts) = Vertices(bSegs)
        /\ Len(bPoly.pts) = Cardinality(Vertices(bSegs))
        /\ \A i \in 1..Len(bPoly.pts) :
              Joined(bSegs, bPoly.pts[i], bPoly.pts[(i % Len(bPoly.pts)) + 1])

\* a loop was resolved whose second segment is attached against its own
\* direction (its end point is the seed's end point)
C11_Witness ==
    /\ phase = "gathering"
    /\ SimpleClosedLoop(bSegs)
    /\ bSegs[2][2] = bSegs[1][2]
    /\ bPoly.kind = "Polygon"

\* C12: for a simple closed loop with one connecting segment removed, in any
\* pick order and orientation, the resolver returns None, the script ends
\* after the error box and nothing of the document has been changed.
C12_MissingLinkAborts ==
    (phase # "picking" /\ LoopMissingOneLink(bSegs)) =>
        /\ bPoly = None
        /\ phase = "aborted"
        /\ markers = start.markers
        /\ fit = start.fit
        /\ comments = InitComments
        /\ labels = 0
        /\ views = [view |-> FALSE, sheet |-> FALSE]
        /\ ~txOpen

\* an open chain of three segments whose seed is the middle one was rejected
C12_Witness ==
    /\ phase = "aborted"
    /\ LoopMissingOneLink(bSegs)
    /\ Len(bSegs) = 3
    /\ \E a \in {bSegs[2][1], bSegs[2][2]} : a = bSegs[1][1]
    /\ \E b \in {bSegs[3][1], bSegs[3][2]} : b = bSegs[1][2]

\* C13: every polygon the resolver returns is non-empty and any two
\* consecutive points of it, the closing pair last-to-first of a polygon of
\* two or more points included, differ by at least the tolerance on some axis.
C13_PolygonPointsDistinct ==
    bPoly.kind = "Polygon" =>
        /\ Len(bPoly.pts) >= 1
        /\ Len(bPoly.pts) >= 2 =>
              \A i \in 1..Len(bPoly.pts) :
                  ~points_are_close(bPoly.pts[i], bPoly.pts[(i % Len(bPoly.pts)) + 1])

\* the row's entity exists and its "Comments" can be written
WritableRow(r) == Writable(r.id, markers, pipeCond)

\* C14: on confirmation the code written to every pipe and marker that has a
\* row equals the NewCode cell of that row as it stood when OK was pressed.
C14_WrittenCodeIsRowCode ==
    phase = "confirmed" =>
        LET renumbered == RenumberRows(rows, text, textNotePlaced, pipeCond)
            written == WriteComments(comments, renumbered, 1, text, markers, pipeCond)
        IN \A i \in 1..Len(rows) :
              (rows[i].cat \in {"Pipes", "Pipe Tags"} /\ WritableRow(rows[i])) =>
                  written[rows[i].id] = rows[i].code

\* C15: the code written to every fitting on confirmation is the base parsed
\* from the text box, and Auto-Fill sets every fitting row's code to that base.
C15_FittingGetsBase ==
    [][ ParseBase(text) # <<>> =>
          /\ UpdateComments =>
                \A i \in 1..Len(rows) :
                    rows[i].cat = "Pipe Fittings" => comments'[rows[i].id] = ParseBase(text)
          /\ autoFillPipeTagCodes =>
                \A i \in 1..Len(rows) :
                    rows[i].cat = "Pipe Fittings" => rows'[i].code = ParseBase(text) ]_vars

\* centre a sorts before centre b: smaller X, or equal X and smaller Y
SortsBefore(a, b) == a[1] < b[1] \/ (a[1] = b[1] /\ a[2] < b[2])
\* pipe row i comes before pipe row j in the stable (X, Y) order of the rows
RowBefore(i, j) ==
    \/ SortsBefore(centers[rows[i].id], centers[rows[j].id])
    \/ (centers[rows[i].id] = centers[rows[j].id] /\ i < j)
\* the pipe row at position k (1-based) of that order
RankedPipeRow(k) ==
    CHOOSE i \in PipeRows(rows) : Cardinality({j \in PipeRows(rows) : RowBefore(j, i)}) = k - 1
ParsedBase == ParseBase(text)

\* C16: Auto-Fill with a parsable text gives the pipe rows exactly the codes
\* base.1 .. base.n, each once, in ascending order of bounding-box centre X,
\* then Y, rows with equal centres in row order.  (Stated for SpecAutoFill,
\* where every step of the open editor is an Auto-Fill.)
C16_AutoFillNumbersSorted ==
    [][ LET base == ParsedBase
        IN (phase = "editing" /\ base # <<>>) =>
          LET pipe_rows == PipeRows(rows)
              n == Cardinality(pipe_rows)
              code == [k \in 1..n |-> Numbered(base, k)]
              ranked == [k \in 1..n |-> RankedPipeRow(k)]
          IN /\ \A k \in 1..n : rows'[ranked[k]].code = code[k]
             /\ \A i \in pipe_rows :
                   Cardinality({k \in 1..n : rows'[i].code = code[k]}) = 1
             /\ \A k \in 1..n :
                   Cardinality({i \in pipe_rows : rows'[i].code = code[k]}) = 1 ]_vars

CodeOfRow(cat, id) == {rows[i].code : i \in RowsOfId(rows, cat, id)}

\* base 5.1.1, pipes 1, 2, 3 at x = 2, 0, 1 on one height: the codes are
\* 5.1.1.3, 5.1.1.1, 5.1.1.2 and the fitting has 5.1.1
C16_Witness ==
    /\ text = <<"5", ".", "1", ".", "1">>
    /\ centers[1] = <<2, 0>> /\ centers[2] = <<0, 0>> /\ centers[3] = <<1, 0>>
    /\ CodeOfRow("Pipes", 1) = {<<"5", ".", "1", ".", "1", ".", "3">>}
    /\ CodeOfRow("Pipes", 2) = {<<"5", ".", "1", ".", "1", ".", "1">>}
    /\ CodeOfRow("Pipes", 3) = {<<"5", ".", "1", ".", "1", ".", "2">>}
    /\ CodeOfRow("Pipe Fittings", FitBase + 1) = {<<"5", ".", "1", ".", "1">>}

\* C17: after Auto-Fill with a parsable text the k-th marker row of the grid
\* carries the code of the k-th pipe row of the (X, Y) order, for every k up
\* to the number of marker rows (and of pipe rows).  (Stated for SpecAutoFill,
\* where every step of the open editor is an Auto-Fill.)
C17_MarkerMirrorsRank ==
    [][ (phase = "editing" /\ ParsedBase # <<>>) =>
          LET tag_rows == SetToSeq(TagRows(rows))
          IN \A k \in 1..Len(tag_rows) :
                k <= Cardinality(PipeRows(rows)) =>
                    rows'[tag_rows[k]].code = rows'[RankedPipeRow(k)].code ]_vars

\* the first marker row, of the marker hosted by pipe 1, carries the code of
\* pipe 2, the leftmost pipe, while its host pipe 1 is the third
C17_Witness ==
    /\ text = <<"5", ".", "1", ".", "1">>
    /\ centers[1] = <<2, 0>> /\ centers[2] = <<0, 0>> /\ centers[3] = <<1, 0>>
    /\ [id |-> MarkerBase + 1, host |-> 1] \in markers
    /\ rows[1].cat = "Pipe Tags" /\ rows[1].id = MarkerBase + 1
    /\ rows[1].code = <<"5", ".", "1", ".", "1", ".", "1">>
    /\ CodeOfRow("Pipes", 2) = {rows[1].code}
    /\ CodeOfRow("Pipes", 1) = {<<"5", ".", "1", ".", "1", ".", "3">>}

\* C18: after the final commit every marker that has a row and whose host is
\* a pipe with a row carries the code written to that host.
C18_MarkerHasHostCode ==
    phase = "updated" =>
        \A m \in markers :
            (RowsOfId(rows, "Pipe Tags", m.id) # {} /\ RowsOfId(rows, "Pipes", m.host) # {}) =>
                comments[m.id] = comments[m.host]

\* C19: with a text that holds no run of digits and dots, Auto-Fill, the
\* renumbering and the write-back change no row's code and no entity's code.
C19_UnparsableBaseBlocks ==
    [][ ParseBase(text) = <<>> =>
          /\ autoFillPipeTagCodes => rows' = rows
          /\ Renumber => rows' = rows
          /\ UpdateComments => comments' = comments ]_vars

\* ---- C20 ----
\* the ray from pt towards larger X crosses the edge from a to b: the edge
\* spans the height of pt, its upper end excluded, and pt lies strictly to
\* the left of the edge walked upwards
RayCrosses(pt, a, b) ==
    LET lo == IF a.Y <= b.Y THEN a ELSE b
        hi == IF a.Y <= b.Y THEN b ELSE a
    IN /\ lo.Y <= pt.Y
       /\ pt.Y < hi.Y
       /\ (hi.X - lo.X) * (pt.Y - lo.Y) - (hi.Y - lo.Y) * (pt.X - lo.X) > 0

\* even-odd rule: the ray crosses an odd number of the edges of the closed polygon
EvenOdd(pt, polygon) ==
    LET n == Len(polygon)
    IN Cardinality({i \in 1..n : RayCrosses(pt, polygon[i], polygon[(i % n) + 1])}) % 2 = 1

\* the element has a box whose centre is inside the polygon
CenterInside(elem, polygon) ==
    /\ elem.bbox.has
    /\ EvenOdd(Center(elem.bbox), HalfUnits(polygon))

\* ids of the elements of elems that satisfy CenterInside, in the order of elems
RECURSIVE InsideIds(_, _)
InsideIds(elems, polygon) ==
    IF elems = <<>>
    THEN <<>>
    ELSE (IF CenterInside(Head(elems), polygon) THEN <<Head(elems).id>> ELSE <<>>)
         \o InsideIds(Tail(elems), polygon)

\* C20: whenever select_boundary_and_gather went past the resolver, the ids
\* it returns are exactly the ids of the collector's elements that have a
\* bounding box whose centre lies inside the polygon by the even-odd rule on
\* X and Y, in collector order; elements without a box are left out; and
\* calling it again on the same picked lines and the same collector returns
\* the same ids in the same order.
C20_GatherIsEvenOddSubsequence ==
    phase = "gathering" =>
        /\ elements_inside = InsideIds(collector, bPoly.pts)
        /\ order_segments_to_polygon(bSegs) = bPoly
        /\ GatherFrom(collector, order_segments_to_polygon(bSegs).pts, 1, <<>>) = elements_inside

\* two elements in the view, the first without a box, the second with a box
\* whose centre is inside the polygon: only the second is returned
C20_Witness ==
    /\ phase = "gathering"
    /\ Len(collector) = 2
    /\ ~collector[1].bbox.has
    /\ collector[2].bbox.has
    /\ elements_inside = <<collector[2].id>>

\* ---- C21 ----
\* the square with the corners (-5,-5), (5,-5), (5,5), (-5,5)
Square5 == <<[X |-> -5, Y |-> -5, Z |-> 0], [X |-> 5, Y |-> -5, Z |-> 0],
             [X |-> 5, Y |-> 5, Z |-> 0], [X |-> -5, Y |-> 5, Z |-> 0]>>

\* smallest and largest coordinate of the corners
MinOf(S) == CHOOSE x \in S : \A y \in S : x <= y
MaxOf(S) == CHOOSE x \in S : \A y \in S : y <= x
Xs(polygon) == {polygon[i].X : i \in 1..Len(polygon)}
Ys(polygon) == {polygon[i].Y : i \in 1..Len(polygon)}

\* pt lies strictly inside / strictly outside the axis-parallel rectangle
\* with the given corners
StrictlyInside(pt, corners) ==
    /\ MinOf(Xs(corners)) < pt.X /\ pt.X < MaxOf(Xs(corners))
    /\ MinOf(Ys(corners)) < pt.Y /\ pt.Y < MaxOf(Ys(corners))
StrictlyOutside(pt, corners) ==
    \/ pt.X < MinOf(Xs(corners)) \/ pt.X > MaxOf(Xs(corners))
    \/ pt.Y < MinOf(Ys(corners)) \/ pt.Y > MaxOf(Ys(corners))

\* the picked lines are the four sides of an axis-parallel rectangle
PickedRectangle ==
    /\ bPoly.kind = "Polygon"
    /\ Len(bPoly.pts) = 4
    /\ Cardinality(Xs(bPoly.pts)) = 2
    /\ Cardinality(Ys(bPoly.pts)) = 2
    /\ \A i \in 1..4 :
          LET p == bPoly.pts[i]
              q == bPoly.pts[(i % 4) + 1]
          IN (p.X = q.X) # (p.Y = q.Y)

\* C21: is_point_inside_polygon puts (0,0) inside and (100,100) outside the
\* square with the corners (-5,-5), (5,-5), (5,5), (-5,5); and for a rectangle
\* picked from any corner in either direction, an element whose centre is
\* strictly inside the rectangle is classified inside and gathered, one
\* whose centre is strictly outside is classified outside and not gathered.
C21_RectangleInsideOutside ==
    /\ is_point_inside_polygon([X |-> 0, Y |-> 0, Z |-> 0], Square5)
    /\ ~is_point_inside_polygon([X |-> 100, Y |-> 100, Z |-> 0], Square5)
    /\ (phase = "gathering" /\ PickedRectangle) =>
          \A k \in 1..Len(collector) :
              LET elem == collector[k]
                  pt == Center(elem.bbox)
                  corners == HalfUnits(bPoly.pts)
              IN elem.bbox.has =>
                   /\ StrictlyInside(pt, corners) =>
                         /\ is_point_inside_polygon(pt, corners)
                         /\ elem.id \in SeqRange(elements_inside)
                   /\ StrictlyOutside(pt, corners) =>
                         /\ ~is_point_inside_polygon(pt, corners)
                         /\ elem.id \notin SeqRange(elements_inside)

\* a rectangle picked clockwise from its upper right corner, and an element
\* whose centre is strictly inside it was gathered
C21_Witness ==
    /\ phase = "gathering"
    /\ PickedRectangle
    /\ bPoly.pts[1].X = MaxOf(Xs(bPoly.pts))
    /\ bPoly.pts[1].Y = MaxOf(Ys(bPoly.pts))
    /\ bPoly.pts[2].X = bPoly.pts[1].X
    /\ Len(collector) = 1
    /\ StrictlyInside(Center(collector[1].bbox), HalfUnits(bPoly.pts))
    /\ elements_inside = <<collector[1].id>>

\* ---- C22 ----
\* the pick was cancelled: no detail line came back from it
PickCancelled == bSegs = <<>>
\* the picked lines do not close into a loop
PickNotClosed == bSegs # <<>> /\ order_segments_to_polygon(bSegs) = None
\* the elements of the view whose centre is inside the resolved polygon
CentersInside == InsideIds(collector, order_segments_to_polygon(bSegs).pts)
\* the picked lines close and no element of the view has its centre inside
NothingInside ==
    /\ order_segments_to_polygon(bSegs).kind = "Polygon"
    /\ CentersInside = <<>>
\* the picked lines close and no element inside is a pipe, a fitting, a
\* marker or a text note
NothingListed ==
    /\ order_segments_to_polygon(bSegs).kind = "Polygon"
    /\ \A e \in SeqRange(CentersInside) :
          e \notin Pipes \cup Fittings \cup MarkerIdsOf(markers) \cup TextNotes

\* nothing of the document differs from the start of the script, no
\* transaction is open and the grid of the editor was never filled
NothingDone ==
    /\ markers = start.markers
    /\ fit = start.fit
    /\ comments = InitComments
    /\ labels = 0
    /\ views = [view |-> FALSE, sheet |-> FALSE]
    /\ nextId = NewBase + 1
    /\ ~txOpen
    /\ rows = <<>>

\* C22: when the pick is cancelled, or the picked lines do not close, or no
\* element centre lies inside the polygon, or no element inside is of a
\* listed category, every step of the script leaves the document untouched,
\* starts no transaction and never opens the editor, and the script ends:
\* at the pick in the first two cases, at the latest after the gathering in
\* the other two.
C22_AbortsBeforeAnyTransaction ==
    [][(PickCancelled \/ PickNotClosed \/ NothingInside \/ NothingListed) =>
          /\ NothingDone'
          /\ phase' # "editing"
          /\ (phase = "picking" /\ (PickCancelled \/ PickNotClosed)) => phase' = "aborted"
          /\ phase = "gathering" => phase' = "aborted"]_vars

\* the script ended although a loop was picked and an element lies inside
\* it: the element is a detail line, nothing was listed and nothing changed
C22_Witness ==
    /\ phase = "aborted"
    /\ bPoly.kind = "Polygon"
    /\ elements_inside = <<LineBase + 1>>
    /\ rows = <<>>
    /\ ~txOpen

\* ---- C23 ----
\* C23: in the editor as the scan fills it, every gathered pipe has a row,
\* with an empty code when it has no "Comments" parameter, and every marker
\* of a pipe whose row shows the tag as detected has a row as well, whatever
\* parameters its host lacks.
C23_MissingAttributeKeepsRow ==
    (phase = "editing" /\ nextId = NewBase + 1) =>
        /\ \A e \in SeqRange(elements_inside) \cap Pipes :
              /\ RowsOfId(rows, "Pipes", e) # {}
              /\ ~PipeHasComments(pipeCond, e) => CodeOfRow("Pipes", e) = {<<>>}
        /\ \A m \in markers :
              (\E j \in PipeRows(rows) : rows[j].id = m.host /\ Tagged(rows, j)) =>
                  RowsOfId(rows, "Pipe Tags", m.id) # {}

\* ---- C24 ----
\* C24: in the editor as the scan fills it, a pipe row shows 'Remove Tag'
\* exactly when some marker of the document records that pipe as its host,
\* which is what the reverse lookup of RemoveTag goes by.
C24_InitialStatusMatchesMarkers ==
    (phase = "editing" /\ nextId = NewBase + 1) =>
        \A j \in PipeRows(rows) :
            Tagged(rows, j) <=> MarkersOfHost(markers, rows[j].id) # {}

\* ---- C25 ----
\* the result of a click dispatched to the rows `order`, from the current state
Click(order) == ClickResult(markers, rows, nextId, txOpen, fit, order, pipeCond)

\* row i on its own, and row i with one other row, in both orders
SelectionsWith(i) ==
    {<<i>>} \cup UNION {{<<i, j>>, <<j, i>>} : j \in (1..Len(rows)) \ {i}}

\* C25: the toggle on a fitting row flips the fitting's switch flag and
\* nothing else.  For the fitting row selected alone or together with any
\* other row, in either order, when the handler runs through without an
\* exception, the
\* markers, the rows with their statuses and codes, the next element id and
\* the fitting's other flag come out as they do for the same selection
\* without the fitting row, and the switch flag comes out flipped.
C25_FittingToggleTouchesOnlyItsFlag ==
    \A i \in 1..Len(rows) :
        rows[i].cat = "Pipe Fittings" =>
            \A o \in SelectionsWith(i) :
                LET k == CHOOSE j \in 1..Len(o) : o[j] = i
                    A == Click(o)
                    B == Click(RemoveAt(o, k))
                IN ~A.err =>
                     /\ ~B.err
                     /\ A.markers = B.markers
                     /\ A.rows = B.rows
                     /\ A.nextId = B.nextId
                     /\ A.txOpen = B.txOpen
                     /\ A.fit.bend45 = B.fit.bend45
                     /\ A.fit.switch = (IF B.fit.switch = 1 THEN 0 ELSE 1)

\* the fitting row was clicked on its own: the switch flag differs from the
\* start, markers and rows are those the editor opened with
C25_Witness ==
    /\ phase = "editing"
    /\ fit.switch # start.fit.switch
    /\ fit.bend45 = start.fit.bend45
    /\ markers = start.markers
    /\ nextId = NewBase + 1
    /\ \E i \in 1..Len(rows) : rows[i].cat = "Pipe Fittings"

\* ---- C26 ----
\* the selection o holds the Tagged row of host p and the row of a marker
\* that records p as host
HostAndOwnMarker(o, p) ==
    /\ \E k \in 1..Len(o) : Tagged(rows, o[k]) /\ rows[o[k]].id = p
    /\ \E k \in 1..Len(o) :
          /\ rows[o[k]].cat = "Pipe Tags"
          /\ \E m \in MarkersOfHost(markers, p) : m.id = rows[o[k]].id

\* host p shows 'Add/Place Tag', the document holds no marker of p and the
\* grid holds no row of a marker that was on p
RemovedOnce(p) ==
    /\ \E j \in PipeRows(rows') : rows'[j].id = p /\ Untagged(rows', j)
    /\ MarkersOfHost(markers', p) = {}
    /\ \A m \in MarkersOfHost(markers, p) : RowsOfId(rows', "Pipe Tags", m.id) = {}

\* C26: a click on 'Remove Tag' dispatched to a selection that holds a
\* Tagged host row and the row of that host's own marker leaves, after the
\* whole batch and in whichever order the rows are processed, the host
\* Untagged, no marker of the host in the document and no marker row.
C26_HostAndMarkerRowRemovedOnce ==
    [][ \A o \in Selections : \A p \in Pipes :
          (dataGrid_CellContentClick(o) /\ HostAndOwnMarker(o, p)) => RemovedOnce(p) ]_vars

\* ---- C27 ----
\* C27: for the rows and the text box of the open editor, whenever the text
\* holds a base code, the renumbering that runs after OK (no text note
\* placed) gives every pipe row the code that Auto-Fill gives it, also when
\* a pipe of the table has no bounding box or is no longer in the document.
C27_RenumberingAgreesWithAutoFill ==
    (phase = "editing" /\ ParseBase(text) # <<>>) =>
        LET renumbered == RenumberRows(rows, text, FALSE, pipeCond)
            filled == AutoFillRows(rows, text, pipeCond)
        IN \A i \in PipeRows(rows) : renumbered[i].code = filled[i].code

\* ---- C28 ----
\* C28: one run of the script creates at most one text note, however many
\* times 'Place Text Note' is pressed in the editor and whether or not the
\* closing step places the note at the region corner.
C28_AtMostOneLabel == labels <= 1

\* ------------------------------------------- specification: sheet transfer
\* the main script of the editor has not been started
EditorNotRun ==
    /\ phase = "not run"
    /\ pipeCond = [p \in Pipes |-> "ok"]
    /\ markers = {}
    /\ rows = <<>>
    /\ nextId = NewBase + 1
    /\ txOpen = FALSE
    /\ fit = [switch |-> 0, bend45 |-> 1]
    /\ labels = 0
    /\ textNotePlaced = FALSE
    /\ text = Placeholder
    /\ comments = InitComments
    /\ views = [view |-> FALSE, sheet |-> FALSE]
    /\ start = [markers |-> {}, fit |-> [switch |-> 0, bend45 |-> 1]]
    /\ centers = PipesInARow
    /\ BoundaryIdle

\* for s in sheets: the next sheet is taken up, or the loop ends and the
\* transaction is committed
copy_sheets_for ==
    /\ transfer.stage = "for"
    /\ transfer' = IF transfer.k > Len(transfer.sheets)
                   THEN [transfer EXCEPT !.stage = "done"]
                   ELSE [transfer EXCEPT !.stage = "while",
                                         !.new = transfer.sheets[transfer.k],
                                         !.count = 1]
    /\ UNCHANGED <<phase, pipeCond, markers, rows, nextId, txOpen, fit, labels,
                   textNotePlaced, text, comments, views, start, centers, bSegs, bPoly,
                   collector, elements_inside, autofix>>

\* one pass of  while new_sheet_number in existing_sheet_numbers
copy_sheets_while ==
    /\ transfer.stage = "while"
    /\ transfer.new \in transfer.existing
    /\ transfer' = [transfer EXCEPT
                       !.new = new_sheet_number(transfer.sheets[transfer.k], transfer.count),
                       !.count = @ + 1]
    /\ UNCHANGED <<phase, pipeCond, markers, rows, nextId, txOpen, fit, labels,
                   textNotePlaced, text, comments, views, start, centers, bSegs, bPoly,
                   collector, elements_inside, autofix>>

\* the loop is left: ViewSheet.Create, new_sheet.SheetNumber = new_sheet_number,
\* the viewports are placed and the number is entered into
\* existing_sheet_numbers; when ViewSheet.Create or Viewport.Create raises,
\* the exception leaves copy_sheets and the transaction is rolled back
copy_sheets_create ==
    /\ transfer.stage = "while"
    /\ transfer.new \notin transfer.existing
    /\ \E raised \in BOOLEAN :
          transfer' = IF raised
                      THEN [transfer EXCEPT !.stage = "raised", !.created = <<>>]
                      ELSE [transfer EXCEPT
                               !.stage = "for",
                               !.k = @ + 1,
                               !.created = Append(@, transfer.new),
                               !.existing = existing_sheet_numbers_add(@, transfer.new)]
    /\ UNCHANGED <<phase, pipeCond, markers, rows, nextId, txOpen, fit, labels,
                   textNotePlaced, text, comments, views, start, centers, bSegs, bPoly,
                   collector, elements_inside, autofix>>

\* the sheets to copy: up to MaxSheets sheets of the source document, no
\* number twice
SheetLists ==
    UNION {Perms(x) : x \in {y \in SUBSET SourceNumbers : Cardinality(y) <= MaxSheets}}

InitTransfer ==
    /\ EditorNotRun
    /\ autofix = AutoFixIdle
    /\ \E sheets \in SheetLists, existing \in SUBSET TargetNumbers :
          transfer = TransferStart(sheets, existing)

NextTransfer ==
    \/ copy_sheets_for
    \/ copy_sheets_while
    \/ copy_sheets_create

SpecTransfer == InitTransfer /\ [][NextTransfer]_vars /\ WF_vars(NextTransfer)

\* ---- C29 ----
\* the numbers given to the sheets created so far are pairwise different and
\* none of them was in the target before the run
CreatedNumbersFresh ==
    /\ \A i \in 1..Len(transfer.created) : transfer.created[i] \notin transfer.pre
    /\ \A i, j \in 1..Len(transfer.created) :
          i # j => transfer.created[i] # transfer.created[j]

\* the candidates of the rename loop are N, N_copy, N_copy2, N_copy3, ...
\* and the loop has not made more passes than there are numbers in use
RenameLoopBounded ==
    transfer.stage = "while" =>
        /\ transfer.count <= Cardinality(transfer.existing) + 1
        /\ transfer.new = IF transfer.count = 1 THEN transfer.sheets[transfer.k]
                          ELSE IF transfer.count = 2
                          THEN transfer.sheets[transfer.k] \o CopySuffix
                          ELSE transfer.sheets[transfer.k] \o CopySuffix
                                   \o IntToStr(transfer.count - 1)

\* C29: for every list of source sheets and every set of numbers already in
\* the target, the rename loop of copy_sheets is left again for each sheet,
\* and every sheet the run creates gets a number that no sheet of the target
\* had before the run and no sheet created earlier in the run was given;
\* the numbers tried for N are N, N_copy, N_copy2, N_copy3, ...
C29_CopiedSheetNumbersAreFresh ==
    /\ [](CreatedNumbersFresh /\ RenameLoopBounded)
    /\ (transfer.stage = "while") ~> (transfer.stage # "while")

\* two sheets were created, the second after the rename loop had to pass by
\* the number just given to the first
C29_Witness ==
    /\ transfer.stage = "done"
    /\ Len(transfer.created) = 2
    /\ transfer.created[1] = transfer.sheets[2]
    /\ transfer.created[1] \notin transfer.pre
    /\ transfer.created[2] # transfer.sheets[2]

\* ----------------------------------------- specification: AutoFix Reducers
\* first loop of auto_fix: the family instances reached over the connectors
\* of the main pipes, each visited once; a multi T-stuk gets the T-stuk map
auto_fix_tstuks ==
    /\ autofix.stage = "tstuks"
    /\ IF autofix.k > Len(autofix.shape)
       THEN autofix' = [autofix EXCEPT !.stage = "fittings", !.k = 1]
       ELSE LET f == autofix.shape[autofix.k]
            IN IF f.family = "multi T-stuk" /\ f.onMain
               THEN \E committed \in BOOLEAN, readOnly \in ReadOnlySets :
                       autofix' = [autofix EXCEPT
                                      !.k = @ + 1,
                                      !.params[autofix.k] =
                                          try_update_fitting(@, TstukMap(f.dir), committed, readOnly)]
               ELSE autofix' = [autofix EXCEPT !.k = @ + 1]
    /\ UNCHANGED <<phase, pipeCond, markers, rows, nextId, txOpen, fit, labels,
                   textNotePlaced, text, comments, views, start, centers, bSegs, bPoly,
                   collector, elements_inside, transfer>>

\* second loop of auto_fix: elbows get their map, reducers that are not
\* connected at both ends get the reducer map; then tg.Assimilate()
auto_fix_fittings ==
    /\ autofix.stage = "fittings"
    /\ IF autofix.k > Len(autofix.shape)
       THEN autofix' = [autofix EXCEPT !.stage = "done"]
       ELSE LET f == autofix.shape[autofix.k]
            IN IF f.family = "multibocht"
               THEN \E committed \in BOOLEAN, readOnly \in ReadOnlySets :
                       autofix' = [autofix EXCEPT
                                      !.k = @ + 1,
                                      !.params[autofix.k] =
                                          try_update_fitting(@, BochtMap, committed, readOnly)]
               ELSE IF f.family = "multireducer" /\ ~f.connected
               THEN \E committed \in BOOLEAN, readOnly \in ReadOnlySets :
                       autofix' = [autofix EXCEPT
                                      !.k = @ + 1,
                                      !.params[autofix.k] =
                                          try_update_fitting(@, ReducerMap, committed, readOnly)]
               ELSE autofix' = [autofix EXCEPT !.k = @ + 1]
    /\ UNCHANGED <<phase, pipeCond, markers, rows, nextId, txOpen, fit, labels,
                   textNotePlaced, text, comments, views, start, centers, bSegs, bPoly,
                   collector, elements_inside, transfer>>

\* a document with up to NFittings family instances of any shape and any
\* parameter values
InitAutoFix ==
    /\ EditorNotRun
    /\ transfer = TransferIdle
    /\ \E n \in 0..NFittings :
          \E shape \in [1..n -> FittingShapes], params \in [1..n -> FittingParams] :
             autofix = AutoFixStart(shape, params)

NextAutoFix ==
    \/ auto_fix_tstuks
    \/ auto_fix_fittings

SpecAutoFix == InitAutoFix /\ [][NextAutoFix]_vars

\* ---- C30 ----
\* C30: at every point of a run of auto_fix, a fitting whose
\* 'reducer_eccentric' parameter was 1 before the run has it 1, whichever
\* maps were passed through try_update_fitting for it (the reducer map
\* lists reducer_eccentric as False) and whether or not the transactions
\* were committed; no step of the run changes the parameter from 1 to 0.
C30_ReducerEccentricStaysOn ==
    \A k \in 1..Len(autofix.params) :
        autofix.before[k]["reducer_eccentric"] = 1
            => autofix.params[k]["reducer_eccentric"] = 1

\* the run is over; a reducer with the flag on got the reducer map in a
\* committed transaction (its switch parameter went from 1 to 0) and still
\* has the flag on
C30_Witness ==
    /\ autofix.stage = "done"
    /\ \E k \in 1..Len(autofix.shape) :
          /\ autofix.shape[k].family = "multireducer"
          /\ ~autofix.shape[k].connected
          /\ autofix.before[k]["reducer_eccentric"] = 1
          /\ autofix.before[k]["switch_excentriciteit"] = 1
          /\ autofix.params[k]["switch_excentriciteit"] = 0
          /\ autofix.params[k]["reducer_eccentric"] = 1

====
